---- MODULE Spec2Model ----
(***************************************************************************)
(* Model of watcher/watcher.py: the log watcher that keeps a sliding       *)
(* window of requests, follows the serving pool and posts failover,        *)
(* recovery and error-rate alerts to Slack under a per-type cooldown.      *)
(*                                                                         *)
(* The program is single threaded.  One step of the model is one of        *)
(*   Main      the webhook check of main()                                 *)
(*   Startup   tail_log_file_with_subprocess up to the tail loop           *)
(*   Tick      time passing while the loop blocks on the next line         *)
(*   TailLine  one turn of the tail loop: the iterator yields a line and   *)
(*             parse_log_line + process_log_entry handle it, with every    *)
(*             send_slack_alert call they make                             *)
(* Time is counted in whole seconds and passes only while the loop waits   *)
(* for a line.  JSON values are records [t, v]: t is the JSON type and v   *)
(* the value; status strings are sequences of one-character strings so     *)
(* that int(), str.split and str.strip are computed and not assumed.       *)
(* The variables marked history record what the program did; the program   *)
(* never reads them.                                                       *)
(***************************************************************************)
EXTENDS Integers, Sequences, FiniteSets, TLC

VARIABLES
    pc,               \* where the process is: main, startup, waiting, exit1
    SLACK_WEBHOOK_URL,\* TRUE iff the environment variable is set and non-empty
    MAINTENANCE_MODE, \* the flag read from the environment at import
    last_seen_pool,   \* module global, None or a JSON value
    request_window,   \* deque(maxlen=WINDOW_SIZE), oldest first
    last_alert_times, \* dict alert_type -> None or time of the last sent alert
    now,              \* the wall clock, datetime.now()
    line_count,       \* lines read by the tail loop
    alerts,           \* history: the send_slack_alert calls of the last step, in order
    delivered,        \* history: per alert type, when Slack last answered 200
    trace,            \* history: pool and transition alerts of each accepted entry,
                      \*          kept while the pools follow one of Scenarios
    seen,             \* history: <<pool of the accepted entry before the last, pool of the last>>
    result,           \* history: how the handling of the last line ended
    accepted_lines,   \* history: the numbers of the lines appended to the window
    maxlen,           \* request_window.maxlen: WINDOW_SIZE in Spec, any size in SpecWindow
    error_rate,       \* SpecWindow: what calculate_error_rate() returned last, or NoRate
    line,             \* SpecInput: history, the line the tail loop read last, or NoLine
    returned          \* history: what each call of alerts returned to its caller

vars == <<pc, SLACK_WEBHOOK_URL, MAINTENANCE_MODE, last_seen_pool, request_window,
          last_alert_times, now, line_count, alerts, delivered, trace, seen,
          result, accepted_lines, maxlen, error_rate, line, returned>>

\* ---------------------------------------------------------------- bounds
MaxLines == 4        \* lines the tail loop reads
MaxTime == 3         \* the clock stops here
MaxWindow == 5       \* SpecWindow: the largest WINDOW_SIZE
MaxSeenLines == 3    \* SpecInput: lines the tail loop reads

\* ---------------------------------------------------------- configuration
\* The three values come from the environment (defaults 2, 200 and 300); they
\* are set small here: a window of 2 has the error rates 0, 50 and 100, so a
\* threshold of 50 has a rate below it, one equal to it and one above it.
ERROR_RATE_THRESHOLD == 50
WINDOW_SIZE == 2
ALERT_COOLDOWN_SEC == 3

\* ------------------------------------------------------------ JSON values
\* None is Python's None (JSON null); Absent marks a key the object lacks.
\* Str holds text the code only compares (pool names); Chars holds text whose
\* characters the code inspects (status fields); Inf is the float json.loads
\* makes of Infinity or 1e999.
None == [t |-> "none", v |-> 0]
Absent == [t |-> "absent", v |-> 0]
Str(s) == [t |-> "str", v |-> s]
Chars(s) == [t |-> "chars", v |-> s]
Num(n) == [t |-> "num", v |-> n]
Inf == [t |-> "inf", v |-> 0]

EXPECTED_PRIMARY_POOL == Str("blue")
EXPECTED_BACKUP_POOL == Str("green")

\* bool(x) of a JSON value
Truthy(x) ==
    CASE x.t = "str" -> x.v # ""
      [] x.t = "chars" -> x.v # <<>>
      [] x.t = "num" -> x.v # 0
      [] x.t = "inf" -> TRUE
      [] OTHER -> FALSE

\* x is a Python str (has .upper())
IsText(x) == x.t \in {"str", "chars"}

\* dict.get(key, default) on a field that may be absent
Get(field, default) == IF field = Absent THEN default ELSE field

\* ------------------------------------------------------- text operations
DigitChars == {"0", "1", "2", "3", "4", "5", "6", "7", "8", "9"}

DigitVal(c) ==
    CASE c = "0" -> 0 [] c = "1" -> 1 [] c = "2" -> 2 [] c = "3" -> 3 [] c = "4" -> 4
      [] c = "5" -> 5 [] c = "6" -> 6 [] c = "7" -> 7 [] c = "8" -> 8 [] c = "9" -> 9

RECURSIVE LStrip(_)
LStrip(s) == IF s # <<>> /\ Head(s) = " " THEN LStrip(Tail(s)) ELSE s

RECURSIVE RStrip(_)
RStrip(s) ==
    IF s # <<>> /\ s[Len(s)] = " " THEN RStrip(SubSeq(s, 1, Len(s) - 1)) ELSE s

\* str.strip()
Strip(s) == RStrip(LStrip(s))

\* str.split(','): always at least one piece
RECURSIVE Split(_)
Split(s) ==
    IF \A i \in 1..Len(s) : s[i] # ","
    THEN <<s>>
    ELSE LET i == CHOOSE k \in 1..Len(s) :
                      s[k] = "," /\ \A j \in 1..(k - 1) : s[j] # ","
         IN <<SubSeq(s, 1, i - 1)>> \o Split(SubSeq(s, i + 1, Len(s)))

RECURSIVE DigitsValue(_)
DigitsValue(s) ==
    IF s = <<>> THEN 0 ELSE 10 * DigitsValue(SubSeq(s, 1, Len(s) - 1)) + DigitVal(s[Len(s)])

\* decimal digits of a natural number, str(n)
RECURSIVE DigitsOf(_)
DigitsOf(n) ==
    LET c == CHOOSE d \in DigitChars : DigitVal(d) = n % 10
    IN IF n < 10 THEN <<c>> ELSE DigitsOf(n \div 10) \o <<c>>

\* int(text): surrounding blanks and one sign are allowed, then digits, with
\* single underscores between them.  [ok, v]; ok = FALSE is ValueError.
IntOfChars(s) ==
    LET b == Strip(s)
        signed == b # <<>> /\ Head(b) \in {"-", "+"}
        d == IF signed THEN Tail(b) ELSE b
        good == /\ d # <<>>
                /\ \A i \in 1..Len(d) : d[i] \in DigitChars \cup {"_"}
                /\ d[1] # "_" /\ d[Len(d)] # "_"
                /\ \A i \in 1..(Len(d) - 1) : ~(d[i] = "_" /\ d[i + 1] = "_")
        digits == SelectSeq(d, LAMBDA c : c # "_")
    IN IF ~good THEN [ok |-> FALSE, v |-> 0]
       ELSE [ok |-> TRUE,
             v |-> IF signed /\ Head(b) = "-" THEN 0 - DigitsValue(digits)
                   ELSE DigitsValue(digits)]

\* str(x) of a JSON value, as characters
PyStr(x) ==
    CASE x.t = "chars" -> x.v
      [] x.t = "num" -> IF x.v < 0 THEN <<"-">> \o DigitsOf(0 - x.v) ELSE DigitsOf(x.v)
      [] x.t = "inf" -> <<"i", "n", "f">>
      [] OTHER -> <<"N", "o", "n", "e">>

\* is_error_status(status): "yes", "no" (also for ValueError and TypeError,
\* which it catches) or "raise" (OverflowError of int(inf), which it does not).
is_error_status(status) ==
    CASE status.t = "num" -> IF 500 <= status.v /\ status.v < 600 THEN "yes" ELSE "no"
      [] status.t = "chars" ->
            LET r == IntOfChars(status.v)
            IN IF r.ok /\ 500 <= r.v /\ r.v < 600 THEN "yes" ELSE "no"
      [] status.t = "inf" -> "raise"
      [] OTHER -> "no"

\* ------------------------------------------------------------------ lines
\* What json.loads makes of a line.  k = "invalid": JSONDecodeError;
\* "falsy": a value bool() takes for False ({}, [], 0, null, "");
\* "scalar": a true value that is no object (5, "x", [1]); "object": a
\* non-empty object with the three fields the code reads, each maybe Absent.
Line(k, pool, status, upstream) ==
    [k |-> k, pool |-> pool, status |-> status, upstream_status |-> upstream]

NoLine == Line("none", Absent, Absent, Absent)

UpstreamRetried == Chars(<<"5", "0", "2", ",", " ", "2", "0", "0">>)

Lines ==
    { Line("invalid", Absent, Absent, Absent),
      Line("falsy", Absent, Absent, Absent),
      Line("scalar", Absent, Absent, Absent) }
    \cup { Line("object", p, Num(500), Absent) :
             p \in {Absent, None, Str(""), Str("-"), Str("null")} }
    \cup { Line("object", Str(p), Num(st), Absent) :
             p \in {"blue", "green"}, st \in {200, 500} }
    \cup { Line("object", Str("canary"), Num(200), Absent),
           Line("object", Str("blue"), Chars(<<"2", "0", "0">>), UpstreamRetried),
           Line("object", Num(7), Num(500), Absent),
           Line("object", Str("green"), Inf, Absent) }

\* parse_log_line: None for a line that is no JSON
parse_log_line(l) == IF l.k = "invalid" THEN NoLine ELSE l

\* bool(entry) of what parse_log_line returned
EntryTruthy(entry) == entry.k \in {"scalar", "object"}

\* ------------------------------------------------------------ alert state
\* error_rate before any call of calculate_error_rate; <<x>> once it returned x
NoRate == <<>>

AlertTypes == {"failover", "recovery", "error_rate", "info"}
Responses == {"200", "rejected", "exception"}

\* what requests.post does when SIGINT arrives while it waits for the answer:
\* KeyboardInterrupt is raised inside it
Interrupt == "interrupt"

At(t) == [t |-> "time", v |-> t]

\* last_alert_times.get(alert_type)
LatGet(lat, alert_type) == IF alert_type \in DOMAIN lat THEN lat[alert_type] ELSE None

\* mutant: the assignment forgets the timestamps of the other alert types
LatSet_ForgetsOthers(lat, alert_type, t) ==
    [k \in DOMAIN lat \cup {alert_type} |-> IF k = alert_type THEN t ELSE None]

\* last_alert_times[alert_type] = t
LatSet(lat, alert_type, t) ==
    [k \in DOMAIN lat \cup {alert_type} |-> IF k = alert_type THEN t ELSE lat[k]]

\* mutant: the cooldown test with <= for <
InCooldown_Inclusive(lat, t, alert_type) ==
    /\ LatGet(lat, alert_type) # None
    /\ t - LatGet(lat, alert_type).v <= ALERT_COOLDOWN_SEC

\* mutant: one cooldown for all alert types
InCooldown_AnyType(lat, t, alert_type) ==
    \E k \in DOMAIN lat : lat[k] # None /\ t - lat[k].v < ALERT_COOLDOWN_SEC

\* the cooldown test of send_slack_alert at clock t
InCooldown(lat, t, alert_type) ==
    /\ LatGet(lat, alert_type) # None
    /\ t - LatGet(lat, alert_type).v < ALERT_COOLDOWN_SEC

\* mutant: maintenance mode suppresses failover alerts only
MaintenanceSuppressed_FailoverOnly(alert_type) ==
    MAINTENANCE_MODE /\ alert_type = "failover"

\* the maintenance test of send_slack_alert
MaintenanceSuppressed(alert_type) == MAINTENANCE_MODE

\* what the branch `response.status_code == 200` does to last_alert_times at clock t
RecordSent(lat, alert_type, t) == LatSet(lat, alert_type, At(t))

\* mutant: the timestamp is taken whatever the transport answered
RecordFailed_Stamped(lat, alert_type, t) == LatSet(lat, alert_type, At(t))

\* what the failure branches (other status, exception) do to last_alert_times
RecordFailed(lat, alert_type, t) == lat

\* Python's True and False
Bool(b) == [t |-> "bool", v |-> b]

\* mutant: the call returns whether the alert was sent
Returns_SentFlag(outcome) == Bool(outcome = "sent")

\* what send_slack_alert returns on the path that ends with outcome: the
\* bare `return` of the three early exits and the end of the function body
Returns(outcome) == None

\* send_slack_alert on the state S = [lsp, win, lat, now, alerts, delivered,
\* result, returned].  resp is what requests.post does; the post is over
\* within the second of the clock in which it starts.  Every call is logged
\* in alerts with its outcome and in returned with what it returned.  A
\* KeyboardInterrupt raised in the post is no Exception: `except Exception`
\* lets it through, the call is logged "interrupted" and returns nothing.
send_slack_alert(S, alert_type, resp) ==
    LET Log(o) == Append(S.alerts, [type |-> alert_type, outcome |-> o])
        Ret(o) == Append(S.returned, Returns(o))
    IN IF MaintenanceSuppressed(alert_type)
       THEN [S EXCEPT !.alerts = Log("maintenance"), !.returned = Ret("maintenance")]
       ELSE IF ~SLACK_WEBHOOK_URL
       THEN [S EXCEPT !.alerts = Log("no_webhook"), !.returned = Ret("no_webhook")]
       ELSE IF InCooldown(S.lat, S.now, alert_type)
       THEN [S EXCEPT !.alerts = Log("cooldown"), !.returned = Ret("cooldown")]
       ELSE IF resp = Interrupt
       THEN [S EXCEPT !.alerts = Log("interrupted"), !.result = "interrupted"]
       ELSE IF resp = "200"
       THEN [S EXCEPT !.lat = RecordSent(S.lat, alert_type, S.now),
                      !.alerts = Log("sent"),
                      !.returned = Ret("sent"),
                      !.delivered = [@ EXCEPT ![alert_type] = At(S.now)]]
       ELSE [S EXCEPT !.lat = RecordFailed(S.lat, alert_type, S.now),
                      !.alerts = Log(resp),
                      !.returned = Ret(resp)]

\* ------------------------------------------------------- double arithmetic
\* Python floats are IEEE 754 doubles: 53 significant bits, every operation
\* rounded to the nearest double, ties to the even one.  A natural number too
\* wide for a machine integer is a sequence of limbs, least significant
\* first, no zero limb at the top; <<>> is 0.
LimbBits == 13
Limb == 2^LimbBits
Precision == 53

RECURSIVE BigOf(_)
BigOf(n) == IF n = 0 THEN <<>> ELSE <<n % Limb>> \o BigOf(n \div Limb)

\* a * c + carry for 0 < c < Limb, carry < Limb
RECURSIVE BigTimes(_, _, _)
BigTimes(a, c, carry) ==
    IF a = <<>> THEN BigOf(carry)
    ELSE <<(Head(a) * c + carry) % Limb>>
         \o BigTimes(Tail(a), c, (Head(a) * c + carry) \div Limb)

\* a * 2^s
RECURSIVE BigShl(_, _)
BigShl(a, s) ==
    IF s = 0 THEN a
    ELSE IF s >= LimbBits - 1
    THEN BigShl(BigTimes(a, 2^(LimbBits - 1), 0), s - (LimbBits - 1))
    ELSE BigTimes(a, 2^s, 0)

RECURSIVE BigTrim(_)
BigTrim(a) ==
    IF a # <<>> /\ a[Len(a)] = 0 THEN BigTrim(SubSeq(a, 1, Len(a) - 1)) ELSE a

\* (r * Limb^Len(a) + a) divided by d, 0 <= r < d < Limb: [q, r], q untrimmed
RECURSIVE BigDivFrom(_, _, _)
BigDivFrom(a, d, r) ==
    IF a = <<>> THEN [q |-> <<>>, r |-> r]
    ELSE LET cur == r * Limb + a[Len(a)]
             low == BigDivFrom(SubSeq(a, 1, Len(a) - 1), d, cur % d)
         IN [q |-> low.q \o <<cur \div d>>, r |-> low.r]

\* quotient and remainder of a by d, 0 < d < Limb
BigDivMod(a, d) ==
    LET x == BigDivFrom(a, d, 0) IN [q |-> BigTrim(x.q), r |-> x.r]

\* a + 1
RECURSIVE BigInc(_)
BigInc(a) ==
    IF a = <<>> THEN <<1>>
    ELSE IF Head(a) + 1 < Limb THEN <<Head(a) + 1>> \o Tail(a)
    ELSE <<0>> \o BigInc(Tail(a))

\* a - 1 for a > 0
RECURSIVE BigDec(_)
BigDec(a) ==
    IF Head(a) > 0 THEN BigTrim(<<Head(a) - 1>> \o Tail(a))
    ELSE <<Limb - 1>> \o BigDec(Tail(a))

\* -1, 0, 1 as a < b, a = b, a > b
RECURSIVE BigCmp(_, _)
BigCmp(a, b) ==
    IF Len(a) # Len(b) THEN (IF Len(a) < Len(b) THEN 0 - 1 ELSE 1)
    ELSE IF a = <<>> THEN 0
    ELSE IF a[Len(a)] # b[Len(b)] THEN (IF a[Len(a)] < b[Len(b)] THEN 0 - 1 ELSE 1)
    ELSE BigCmp(SubSeq(a, 1, Len(a) - 1), SubSeq(b, 1, Len(b) - 1))

RECURSIVE BitLen(_)
BitLen(n) == IF n = 0 THEN 0 ELSE 1 + BitLen(n \div 2)

BigBitLen(a) == IF a = <<>> THEN 0 ELSE (Len(a) - 1) * LimbBits + BitLen(a[Len(a)])

BigOdd(a) == a # <<>> /\ Head(a) % 2 = 1

\* A double is [m, e] with the value m * 2^e: m = <<>> for 0.0, else a
\* natural number of exactly Precision bits.
FloatZero == [m |-> <<>>, e |-> 0]

\* q rounded up if the dropped part, rem out of unit, is above a half, or is
\* a half and q is odd; a carry out of the top bit moves the exponent
FloatRound(q, rem, unit, e) ==
    LET up == 2 * rem > unit \/ (2 * rem = unit /\ BigOdd(q))
        m == IF up THEN BigInc(q) ELSE q
    IN IF BigBitLen(m) > Precision
       THEN [m |-> BigDivMod(m, 2).q, e |-> e + 1]
       ELSE [m |-> m, e |-> e]

\* the double nearest to p * 2^e, for a p of Precision to Precision + LimbBits - 1 bits
FloatOfBig(p, e) ==
    LET s == BigBitLen(p) - Precision
        d == BigDivMod(p, 2^s)
    IN IF s = 0 THEN [m |-> p, e |-> e] ELSE FloatRound(d.q, d.r, 2^s, e + s)

\* float(n) of a natural number below 2^31
FloatOfNat(n) ==
    IF n = 0 THEN FloatZero
    ELSE [m |-> BigShl(BigOf(n), Precision - BitLen(n)), e |-> BitLen(n) - Precision]

\* the least t with b <= a * 2^t
RECURSIVE ShiftUpTo(_, _)
ShiftUpTo(a, b) == IF a >= b THEN 0 ELSE 1 + ShiftUpTo(2 * a, b)

\* the greatest t with b * 2^t <= a, for 0 < b <= a
RECURSIVE ShiftWithin(_, _)
ShiftWithin(b, a) == IF 2 * b > a THEN 0 ELSE 1 + ShiftWithin(2 * b, a)

\* a / b of two integers 0 <= a < Limb, 0 < b < Limb: the double nearest to
\* the quotient (Python's int / int is correctly rounded).  The operands are
\* scaled to bb <= aa < 2 * bb, so that the quotient of aa * 2^52 by bb has
\* Precision bits.
FloatDiv(a, b) ==
    IF a = 0 THEN FloatZero
    ELSE LET ta == ShiftUpTo(a, b)
             tb == IF a >= b THEN ShiftWithin(b, a) ELSE 0
             d == BigDivMod(BigShl(BigOf(a * 2^ta), Precision - 1), b * 2^tb)
         IN FloatRound(d.q, d.r, b * 2^tb, tb - ta - (Precision - 1))

\* x * c for a double x and a natural number 0 < c < 2^12 (c is a double)
FloatTimes(x, c) ==
    IF x.m = <<>> THEN FloatZero ELSE FloatOfBig(BigTimes(x.m, c, 0), x.e)

\* -1, 0, 1 as x < y, x = y, x > y, for doubles x >= 0 and y >= 0
FloatCmp(x, y) ==
    IF x.m = <<>> \/ y.m = <<>> THEN BigCmp(x.m, y.m)
    ELSE IF x.e # y.e THEN (IF x.e < y.e THEN 0 - 1 ELSE 1)
    ELSE BigCmp(x.m, y.m)

\* ----------------------------------------------------------------- window
\* mutant: a full window drops its newest entry
DequeAppend_DropNewest(w, x) ==
    IF Len(w) >= WINDOW_SIZE THEN SubSeq(w, 1, Len(w) - 1) \o <<x>> ELSE Append(w, x)

\* deque(maxlen=n).append(x); a deque of maxlen 0 stays empty
DequeAppendTo(w, x, n) ==
    IF n = 0 THEN <<>>
    ELSE IF Len(w) >= n THEN Tail(w) \o <<x>> ELSE Append(w, x)

\* deque(maxlen=WINDOW_SIZE).append(x)
DequeAppend(w, x) == DequeAppendTo(w, x, WINDOW_SIZE)

error_count(w) == Cardinality({i \in 1..Len(w) : w[i].is_error})

\* the longest window any specification of this module holds
LongestWindow == IF MaxWindow > WINDOW_SIZE THEN MaxWindow ELSE WINDOW_SIZE

\* (error_count / len(request_window)) * 100 in doubles, for every length n
\* and count k a window can have; worked out once
Percentage ==
    [n \in 1..LongestWindow |-> [k \in 0..n |-> FloatTimes(FloatDiv(k, n), 100)]]

\* mutant: the share of errors is returned as a fraction, not as a percentage
calculate_error_rate_Fraction(w) ==
    IF Len(w) = 0 THEN FloatZero ELSE FloatDiv(error_count(w), Len(w))

\* calculate_error_rate
calculate_error_rate(w) ==
    IF Len(w) = 0 THEN FloatZero ELSE Percentage[Len(w)][error_count(w)]

\* float(os.getenv('ERROR_RATE_THRESHOLD', 2))
ThresholdFloat == FloatOfNat(ERROR_RATE_THRESHOLD)

\* error_rate > ERROR_RATE_THRESHOLD
AboveThreshold(rate) == FloatCmp(rate, ThresholdFloat) = 1

\* mutant: the error rate is checked on any non-empty window
WindowFull_NonEmpty(w) == Len(w) >= 1

\* the gate of the error-rate check
WindowFull(w) == Len(w) >= WINDOW_SIZE

\* ------------------------------------------------------------- transition
\* mutant: failover is tested with the pools the other way round
Transition_Swapped(prev, pool) ==
    IF Truthy(prev) /\ prev # pool
    THEN IF prev = EXPECTED_BACKUP_POOL /\ pool = EXPECTED_PRIMARY_POOL THEN "failover"
         ELSE IF prev = EXPECTED_PRIMARY_POOL /\ pool = EXPECTED_BACKUP_POOL THEN "recovery"
         ELSE "other"
    ELSE "none"

\* mutant: recovery is any return to the primary pool
Transition_AnyReturn(prev, pool) ==
    IF Truthy(prev) /\ prev # pool
    THEN IF prev = EXPECTED_PRIMARY_POOL /\ pool = EXPECTED_BACKUP_POOL THEN "failover"
         ELSE IF pool = EXPECTED_PRIMARY_POOL THEN "recovery"
         ELSE "other"
    ELSE "none"

\* mutant: the recovery branch never matches
Transition_NoRecovery(prev, pool) ==
    IF Truthy(prev) /\ prev # pool
    THEN IF prev = EXPECTED_PRIMARY_POOL /\ pool = EXPECTED_BACKUP_POOL THEN "failover"
         ELSE "other"
    ELSE "none"

\* the branch of the failover detection taken for last_seen_pool = prev
Transition(prev, pool) ==
    IF Truthy(prev) /\ prev # pool
    THEN IF prev = EXPECTED_PRIMARY_POOL /\ pool = EXPECTED_BACKUP_POOL THEN "failover"
         ELSE IF prev = EXPECTED_BACKUP_POOL /\ pool = EXPECTED_PRIMARY_POOL THEN "recovery"
         ELSE "other"
    ELSE "none"

\* mutant: the skip test forgets the "-" of a request no upstream served
InvalidPool_NoDash(pool) == ~Truthy(pool) \/ pool = Str("null")

\* the skip test on the pool field
InvalidPool(pool) == ~Truthy(pool) \/ pool = Str("-") \/ pool = Str("null") \/ pool = Str("")

\* is_error of an entry: "yes", "no" or "raise"
EntryIsError(status, upstream_status) ==
    LET first == is_error_status(status)
        parts == Split(PyStr(upstream_status))
        hit == \E i \in 1..Len(parts) : is_error_status(Chars(Strip(parts[i]))) = "yes"
    IN IF first = "raise" THEN "raise"
       ELSE IF Truthy(upstream_status) /\ hit THEN "yes"
       ELSE first

\* mutant: once the primary pool was seen, last_seen_pool keeps it
UpdatePool_KeepsPrimary(prev, pool) ==
    IF prev = EXPECTED_PRIMARY_POOL THEN prev ELSE pool

\* last_seen_pool = pool
UpdatePool(prev, pool) == pool

\* process_log_entry(entry) from state S, in the stages of its text.
\* r1 is the transport's answer to the failover/recovery post and r2 to the
\* error-rate post.  S.result tells how the call ended:
\* "skipped" (invalid pool), "accepted" (returned after the append), "crash"
\* (raised before the append), "accepted_crash" (raised after it, building
\* the error-rate text) or "interrupted" (KeyboardInterrupt out of a post).

\* request_window.append({...}); the entry's timestamp is its line number
AddToWindow(S, pool, is_error, n) ==
    [S EXCEPT !.win = DequeAppend(@, [pool |-> pool, is_error |-> is_error,
                                      timestamp |-> n])]

\* the failover detection block
DetectFailover(S, pool, r1) ==
    IF Transition(S.lsp, pool) \in {"failover", "recovery"}
    THEN send_slack_alert(S, Transition(S.lsp, pool), r1)
    ELSE S

\* mutant: last_seen_pool is updated only if no alert of the entry was held back
SetLastSeen_OnlyIfSent(S, pool) ==
    IF \E i \in 1..Len(S.alerts) : S.alerts[i].outcome # "sent"
    THEN [S EXCEPT !.result = "accepted"]
    ELSE [S EXCEPT !.lsp = pool, !.result = "accepted"]

\* the update of last_seen_pool
SetLastSeen(S, pool) == [S EXCEPT !.lsp = UpdatePool(@, pool), !.result = "accepted"]

\* the error-rate detection block
DetectErrorRate(S, pool, r2) ==
    IF WindowFull(S.win) /\ AboveThreshold(calculate_error_rate(S.win))
    THEN IF IsText(pool)
         THEN send_slack_alert(S, "error_rate", r2)
         ELSE [S EXCEPT !.result = "accepted_crash"]
    ELSE S

\* mutant: the error rate is checked before the pool change
ProcessFields_RateFirst(S, pool, err, n, r1, r2) ==
    IF InvalidPool(pool) THEN [S EXCEPT !.result = "skipped"]
    ELSE IF err = "raise" THEN [S EXCEPT !.result = "crash"]
    ELSE SetLastSeen(DetectFailover(DetectErrorRate(AddToWindow(S, pool, err = "yes", n),
                                                    pool, r2),
                                    pool, r1),
                     pool)

\* the statements after the failover detection block: none of them runs if
\* KeyboardInterrupt came out of the block
AfterFailover(S, pool, r2) ==
    IF S.result = "interrupted" THEN S
    ELSE DetectErrorRate(SetLastSeen(S, pool), pool, r2)

\* process_log_entry once the fields are read: skip test, classification,
\* append, failover detection, pool update, error-rate detection
ProcessFields(S, pool, err, n, r1, r2) ==
    IF InvalidPool(pool) THEN [S EXCEPT !.result = "skipped"]
    ELSE IF err = "raise" THEN [S EXCEPT !.result = "crash"]
    ELSE AfterFailover(DetectFailover(AddToWindow(S, pool, err = "yes", n),
                                      pool, r1),
                       pool, r2)

process_log_entry(S, entry, n, r1, r2) ==
    IF entry.k # "object" THEN [S EXCEPT !.result = "crash"]
    ELSE ProcessFields(S, Get(entry.pool, Str("")),
                       EntryIsError(Get(entry.status, Num(0)),
                                    Get(entry.upstream_status, Chars(<<>>))),
                       n, r1, r2)

\* ---------------------------------------------------------------- actions
Init ==
    /\ pc = "main"
    /\ SLACK_WEBHOOK_URL \in BOOLEAN
    /\ MAINTENANCE_MODE \in BOOLEAN
    /\ last_seen_pool = None
    /\ request_window = <<>>
    /\ last_alert_times = [k \in {"failover", "recovery", "error_rate"} |-> None]
    /\ now = 0
    /\ line_count = 0
    /\ alerts = <<>>
    /\ delivered = [k \in AlertTypes |-> None]
    /\ trace = <<>>
    /\ seen = <<None, None>>
    /\ result = "none"
    /\ accepted_lines = <<>>
    /\ maxlen = WINDOW_SIZE
    /\ error_rate = NoRate
    /\ line = NoLine
    /\ returned = <<>>

\* the program state as the record the operators above work on
Here ==
    [lsp |-> last_seen_pool, win |-> request_window, lat |-> last_alert_times,
     now |-> now, alerts |-> <<>>, delivered |-> delivered, result |-> "none",
     returned |-> <<>>]

\* main(): exit(1) without a webhook, else on to the tail function
Main ==
    /\ pc = "main"
    /\ pc' = IF SLACK_WEBHOOK_URL THEN "startup" ELSE "exit1"
    /\ UNCHANGED <<SLACK_WEBHOOK_URL, MAINTENANCE_MODE, last_seen_pool, request_window,
                   last_alert_times, now, line_count, alerts, delivered,
                   trace, seen, result, accepted_lines, maxlen, error_rate, line,
                   returned>>

\* tail_log_file_with_subprocess: the log file never appears
StartupNoFile ==
    /\ pc = "startup"
    /\ pc' = "exit1"
    /\ UNCHANGED <<SLACK_WEBHOOK_URL, MAINTENANCE_MODE, last_seen_pool, request_window,
                   last_alert_times, now, line_count, alerts, delivered,
                   trace, seen, result, accepted_lines, maxlen, error_rate, line,
                   returned>>

\* tail_log_file_with_subprocess: the file is there, the startup alert is
\* sent and tail is started, the transport answering one of responses;
\* KeyboardInterrupt out of the post reaches main(), which calls exit(0)
StartupBody(responses) ==
    /\ \E resp \in responses :
          \E S \in {send_slack_alert(Here, "info", resp)} :
             /\ last_alert_times' = S.lat
             /\ alerts' = S.alerts
             /\ delivered' = S.delivered
             /\ returned' = S.returned
             /\ pc' = IF S.result = "interrupted" THEN "exit0" ELSE "waiting"
    /\ UNCHANGED <<SLACK_WEBHOOK_URL, MAINTENANCE_MODE, last_seen_pool, request_window,
                   now, line_count, trace, seen, result, accepted_lines, maxlen,
                   error_rate, line>>

Startup ==
    /\ pc = "startup"
    /\ StartupBody(Responses)

\* a second passes while the loop blocks on process.stdout
Tick ==
    /\ pc = "waiting"
    /\ now < MaxTime
    /\ now' = now + 1
    /\ UNCHANGED <<pc, SLACK_WEBHOOK_URL, MAINTENANCE_MODE, last_seen_pool,
                   request_window, last_alert_times, line_count, alerts,
                   delivered, trace, seen, result, accepted_lines, maxlen,
                   error_rate, line, returned>>

\* the body of the tail loop on line l: parse_log_line, then
\* process_log_entry if the entry is true
HandleResult(l, r1, r2) ==
    IF EntryTruthy(parse_log_line(l))
    THEN process_log_entry(Here, parse_log_line(l), line_count + 1, r1, r2)
    ELSE [Here EXCEPT !.result = "unparsed"]

\* whether the calls logged in log reached requests.post for one of types
Posted(log, types) ==
    \E i \in 1..Len(log) :
        log[i].type \in types /\ log[i].outcome \notin {"maintenance", "no_webhook", "cooldown"}

\* the transport's answers worth telling apart: only those of a post that is made
Answers(made, responses) == IF made THEN responses ELSE {"200"}

\* the accepted entries so far, kept while their pools follow one of
\* Scenarios and Off from the first entry that leaves them
Off == <<[pool |-> Str("off"), calls |-> <<>>]>>

Scenarios ==
    { <<Str("blue"), Str("blue"), Str("green")>>,
      <<Str("blue"), Str("green"), Str("blue")>>,
      <<Str("blue"), Str("green"), Str("green"), Str("blue")>> }

Pools(tr) == [i \in 1..Len(tr) |-> tr[i].pool]

IsPrefix(a, b) == Len(a) <= Len(b) /\ SubSeq(b, 1, Len(a)) = a

\* the calls of log for a failover or recovery alert
TransitionCalls(log) == SelectSeq(log, LAMBDA c : c.type \in {"failover", "recovery"})

Follow(tr, pool, log) ==
    IF tr # Off /\ \E sc \in Scenarios : IsPrefix(Append(Pools(tr), pool), sc)
    THEN Append(tr, [pool |-> pool, calls |-> TransitionCalls(log)])
    ELSE Off

\* the entry went into the window
Appended(res) == res \in {"accepted", "accepted_crash", "interrupted"}

\* the body of the tail loop on line l, with every answer of responses the
\* transport can give to the posts it makes; an exception the body raises
\* ends the process with exit(1), KeyboardInterrupt ends the loop and main()
\* returns
LoopBody(l, responses) ==
    /\ \E r1 \in Answers(Posted(HandleResult(l, "200", "200").alerts,
                                {"failover", "recovery"}), responses) :
         \E r2 \in Answers(Posted(HandleResult(l, r1, "200").alerts,
                                  {"error_rate"}), responses) :
           \E S \in {HandleResult(l, r1, r2)} :
              /\ last_seen_pool' = S.lsp
              /\ request_window' = S.win
              /\ last_alert_times' = S.lat
              /\ alerts' = S.alerts
              /\ delivered' = S.delivered
              /\ returned' = S.returned
              /\ result' = S.result
              /\ accepted_lines' = IF Appended(S.result)
                                   THEN Append(accepted_lines, line_count + 1)
                                   ELSE accepted_lines
              /\ trace' = IF Appended(S.result)
                           THEN Follow(trace, Get(l.pool, Str("")), S.alerts)
                           ELSE trace
              /\ seen' = IF Appended(S.result)
                          THEN <<seen[2], Get(l.pool, Str(""))>>
                          ELSE seen
              /\ pc' = IF S.result \in {"crash", "accepted_crash"} THEN "exit1"
                       ELSE IF S.result = "interrupted" THEN "exit0"
                       ELSE "waiting"
    /\ line_count' = line_count + 1
    /\ UNCHANGED <<SLACK_WEBHOOK_URL, MAINTENANCE_MODE, now, maxlen, error_rate>>

\* one turn of `for line in process.stdout`: the iterator yields a line and
\* the loop body handles it
TailLine ==
    /\ pc = "waiting"
    /\ line_count < MaxLines
    /\ \E l \in Lines : LoopBody(l, Responses)
    /\ UNCHANGED line

Next == Main \/ StartupNoFile \/ Startup \/ Tick \/ TailLine

Spec == Init /\ [][Next]_vars

\* ------------------------------------------------- the loop with its input
\* The same program over fewer lines, with the line read last kept in line.
TailLineSeen ==
    /\ pc = "waiting"
    /\ line_count < MaxSeenLines
    /\ \E l \in Lines : LoopBody(l, Responses) /\ line' = l

NextInput == Main \/ StartupNoFile \/ Startup \/ Tick \/ TailLineSeen

SpecInput == Init /\ [][NextInput]_vars

\* ------------------------------------------------------- the window alone
\* request_window and calculate_error_rate under every WINDOW_SIZE from 0 to
\* MaxWindow: entries are appended as process_log_entry appends them and
\* calculate_error_rate is called on whatever the window holds.
InitWindow ==
    /\ pc = "window"
    /\ maxlen \in 0..MaxWindow
    /\ request_window = <<>>
    /\ error_rate = NoRate
    /\ line_count = 0
    /\ SLACK_WEBHOOK_URL = TRUE
    /\ MAINTENANCE_MODE = FALSE
    /\ last_seen_pool = None
    /\ last_alert_times = [k \in {"failover", "recovery", "error_rate"} |-> None]
    /\ now = 0
    /\ alerts = <<>>
    /\ delivered = [k \in AlertTypes |-> None]
    /\ trace = <<>>
    /\ seen = <<None, None>>
    /\ result = "none"
    /\ accepted_lines = <<>>
    /\ line = NoLine
    /\ returned = <<>>

\* request_window.append({...}) of the entry of line line_count + 1
Observe ==
    /\ pc = "window"
    /\ line_count < 2 * MaxWindow
    /\ \E is_error \in BOOLEAN :
          request_window' =
              DequeAppendTo(request_window,
                            [pool |-> EXPECTED_PRIMARY_POOL, is_error |-> is_error,
                             timestamp |-> line_count + 1],
                            maxlen)
    /\ line_count' = line_count + 1
    /\ error_rate' = NoRate
    /\ UNCHANGED <<pc, SLACK_WEBHOOK_URL, MAINTENANCE_MODE, last_seen_pool,
                   last_alert_times, now, alerts, delivered, trace, seen, result,
                   accepted_lines, maxlen, line,
                   returned>>

\* error_rate = calculate_error_rate()
CallRate ==
    /\ pc = "window"
    /\ error_rate' = <<calculate_error_rate(request_window)>>
    /\ UNCHANGED <<pc, SLACK_WEBHOOK_URL, MAINTENANCE_MODE, last_seen_pool,
                   request_window, last_alert_times, now, line_count, alerts,
                   delivered, trace, seen, result, accepted_lines, maxlen, line,
                   returned>>

NextWindow == Observe \/ CallRate

SpecWindow == InitWindow /\ [][NextWindow]_vars

\* ------------------------------------------------- the loop under SIGINT
\* The same program when SIGINT can arrive: while the loop blocks on
\* process.stdout, or while a post waits for the transport's answer.
SignalResponses == Responses \cup {Interrupt}

StartupSignal ==
    /\ pc = "startup"
    /\ StartupBody(SignalResponses)

TailLineSignal ==
    /\ pc = "waiting"
    /\ line_count < MaxSeenLines
    /\ \E l \in Lines : LoopBody(l, SignalResponses) /\ line' = l

\* KeyboardInterrupt out of `for line in process.stdout`: tail is terminated,
\* the function returns and main() after it
SignalWhileWaiting ==
    /\ pc = "waiting"
    /\ pc' = "exit0"
    /\ result' = "signal"
    /\ alerts' = <<>>
    /\ returned' = <<>>
    /\ UNCHANGED <<SLACK_WEBHOOK_URL, MAINTENANCE_MODE, last_seen_pool, request_window,
                   last_alert_times, now, line_count, delivered, trace, seen,
                   accepted_lines, maxlen, error_rate, line>>

NextSignal ==
    Main \/ StartupNoFile \/ StartupSignal \/ Tick \/ TailLineSignal \/ SignalWhileWaiting

SpecSignal == Init /\ [][NextSignal]_vars

\* ------------------------------------------------------------ properties
Accepted == Appended(result)

\* the calls of the last step for an alert of type k
Calls(k) == SelectSeq(alerts, LAMBDA c : c.type = k)

FailedOutcomes == {"rejected", "exception"}

\* this step is one that calls send_slack_alert afresh: Startup or TailLine
Calling == line_count' # line_count \/ (pc = "startup" /\ pc' = "waiting")

\* C1: the window never holds more than WINDOW_SIZE entries, and it holds
\* exactly the last min(WINDOW_SIZE, n) of the n entries accepted so far, in
\* the order they arrived, the newest being the entry just accepted.
C1_WindowHoldsLastN ==
    LET n == Len(accepted_lines)
        m == IF n < WINDOW_SIZE THEN n ELSE WINDOW_SIZE
    IN /\ Len(request_window) <= WINDOW_SIZE
       /\ Len(request_window) = m
       /\ \A i \in 1..m : request_window[i].timestamp = accepted_lines[n - m + i]
       /\ m > 0 => request_window[m].pool = seen[2]

\* C1 witness: two entries more than the window holds were accepted
C1_Witness ==
    /\ Len(accepted_lines) = WINDOW_SIZE + 2
    /\ Len(request_window) = WINDOW_SIZE
    /\ request_window[1].timestamp > 1

\* C2: an accepted entry of the backup pool that follows an accepted entry of
\* the primary pool makes exactly one failover call; the pools blue, blue,
\* green make no such call on the first two entries and one on the third.
C2_FailoverOnPrimaryToBackup ==
    /\ (Accepted /\ seen = <<EXPECTED_PRIMARY_POOL, EXPECTED_BACKUP_POOL>>)
          => Len(Calls("failover")) = 1
    /\ \A tr \in {trace} :
          IsPrefix(Pools(tr), <<Str("blue"), Str("blue"), Str("green")>>)
             => \A i \in 1..Len(tr) :
                   /\ i < 3 => tr[i].calls = <<>>
                   /\ i = 3 => Len(tr[i].calls) = 1 /\ tr[i].calls[1].type = "failover"

\* C2 witness: blue, blue, green was read and the failover alert of the third went out
C2_Witness ==
    /\ Pools(trace) = <<Str("blue"), Str("blue"), Str("green")>>
    /\ trace[3].calls = <<[type |-> "failover", outcome |-> "sent"]>>
    /\ Calls("failover") = <<[type |-> "failover", outcome |-> "sent"]>>

\* C3: an accepted entry of the primary pool that follows an accepted entry of
\* the backup pool makes exactly one recovery call; the pools blue, green,
\* blue make one failover call and then one recovery call.
C3_RecoveryOnBackupToPrimary ==
    /\ (Accepted /\ seen = <<EXPECTED_BACKUP_POOL, EXPECTED_PRIMARY_POOL>>)
          => Len(Calls("recovery")) = 1
    /\ \A tr \in {trace} :
          IsPrefix(Pools(tr), <<Str("blue"), Str("green"), Str("blue")>>)
             => \A i \in 1..Len(tr) :
                   /\ i = 1 => tr[i].calls = <<>>
                   /\ i = 2 => Len(tr[i].calls) = 1 /\ tr[i].calls[1].type = "failover"
                   /\ i = 3 => Len(tr[i].calls) = 1 /\ tr[i].calls[1].type = "recovery"

\* C3 witness: blue, green, blue was read, both alerts went out
C3_Witness ==
    /\ Pools(trace) = <<Str("blue"), Str("green"), Str("blue")>>
    /\ trace[2].calls = <<[type |-> "failover", outcome |-> "sent"]>>
    /\ trace[3].calls = <<[type |-> "recovery", outcome |-> "sent"]>>

\* C4: an accepted entry makes no failover and no recovery call if it is the
\* first accepted entry, if its pool is the pool of the entry before, or if
\* the change is neither primary to backup nor backup to primary.
C4_NoTransitionAlertOtherwise ==
    (Accepted /\ seen \notin {<<EXPECTED_PRIMARY_POOL, EXPECTED_BACKUP_POOL>>,
                              <<EXPECTED_BACKUP_POOL, EXPECTED_PRIMARY_POOL>>})
       => Calls("failover") = <<>> /\ Calls("recovery") = <<>>

\* C4 witness: the third accepted entry changed the pool from one outside
\* the two to the primary, and no call was made
C4_Witness ==
    /\ Accepted
    /\ seen = <<Str("canary"), EXPECTED_PRIMARY_POOL>>
    /\ Len(accepted_lines) >= 3
    /\ alerts = <<>>

\* C5: after an accepted entry with pool p the last seen pool is p, whatever
\* became of the alert of that entry; in maintenance mode blue then green
\* sends nothing and leaves green as the last seen pool.
C5_LastSeenPoolFollowsEntry ==
    /\ Accepted => last_seen_pool = seen[2]
    /\ (Accepted /\ MAINTENANCE_MODE /\ seen = <<Str("blue"), Str("green")>>)
          => /\ \A i \in 1..Len(alerts) : alerts[i].outcome = "maintenance"
             /\ delivered["failover"] = None
             /\ last_seen_pool = Str("green")

\* C5 witness: maintenance mode held back the failover alert of blue then green
C5_Witness ==
    /\ MAINTENANCE_MODE
    /\ Accepted
    /\ seen = <<Str("blue"), Str("green")>>
    /\ Calls("failover") = <<[type |-> "failover", outcome |-> "maintenance"]>>
    /\ last_seen_pool = Str("green")

\* C6: in maintenance mode no alert of any type reaches the transport and no
\* entry of last_alert_times is ever set: every call ends at the maintenance test.
C6_MaintenanceSuppressesAll ==
    MAINTENANCE_MODE =>
       /\ \A i \in 1..Len(alerts) : alerts[i].outcome = "maintenance"
       /\ \A k \in AlertTypes : LatGet(last_alert_times, k) = None /\ delivered[k] = None

\* C6 witness: a recovery and an error-rate alert of one entry were both held back
C6_Witness ==
    /\ MAINTENANCE_MODE
    /\ alerts = <<[type |-> "recovery", outcome |-> "maintenance"],
                  [type |-> "error_rate", outcome |-> "maintenance"]>>

\* C7: a call for type k ends at the cooldown test exactly when an alert of
\* type k was delivered before and less than ALERT_COOLDOWN_SEC ago, and an
\* alert of type k is delivered only ALERT_COOLDOWN_SEC or more after the one before.
C7_CooldownSeparatesDeliveries ==
    [][Calling =>
         \A i \in 1..Len(alerts') :
            LET k == alerts'[i].type
                recent == delivered[k] # None /\ now' - delivered[k].v < ALERT_COOLDOWN_SEC
            IN /\ alerts'[i].outcome = "cooldown" <=> recent
               /\ (alerts'[i].outcome = "sent" /\ delivered[k] # None)
                     => now' - delivered[k].v >= ALERT_COOLDOWN_SEC]_vars

\* C7 witness: an error-rate alert was held back by the cooldown of one
\* delivered before
C7_Witness ==
    /\ Calls("error_rate") = <<[type |-> "error_rate", outcome |-> "cooldown"]>>
    /\ delivered["error_rate"] # None
    /\ now - delivered["error_rate"].v < ALERT_COOLDOWN_SEC

\* C8: a call is never held back by the cooldown unless an alert of its own
\* type was delivered before; on the pools blue, green, green, blue the
\* recovery call of the fourth entry is not held back by the failover alert
\* delivered for the second, and the third entry makes no call.
C8_CooldownPerType ==
    /\ \A i \in 1..Len(alerts) :
          alerts[i].outcome = "cooldown" => delivered[alerts[i].type] # None
    /\ \A tr \in {trace} :
          (/\ IsPrefix(Pools(tr), <<Str("blue"), Str("green"), Str("green"), Str("blue")>>)
           /\ ~MAINTENANCE_MODE)
             => \A i \in 1..Len(tr) :
                   /\ i \in {1, 3} => tr[i].calls = <<>>
                   /\ i = 2 => /\ Len(tr[i].calls) = 1
                               /\ tr[i].calls[1].type = "failover"
                               /\ tr[i].calls[1].outcome # "cooldown"
                   /\ i = 4 => /\ Len(tr[i].calls) = 1
                               /\ tr[i].calls[1].type = "recovery"
                               /\ tr[i].calls[1].outcome # "cooldown"

\* C8 witness: blue, green, green, blue one second apart; the failover alert
\* went out at second 1 and the recovery alert at second 3, inside its cooldown
C8_Witness ==
    /\ Pools(trace) = <<Str("blue"), Str("green"), Str("green"), Str("blue")>>
    /\ trace[2].calls = <<[type |-> "failover", outcome |-> "sent"]>>
    /\ trace[4].calls = <<[type |-> "recovery", outcome |-> "sent"]>>
    /\ delivered["failover"] = At(1)
    /\ delivered["recovery"] = At(3)
    /\ 3 - 1 < ALERT_COOLDOWN_SEC

\* C9: a call the transport fails (an exception, or a status other than 200)
\* leaves last_alert_times of its type as it was, and the next call for that
\* type is not held back by the cooldown.
C9_FailureKeepsCooldown ==
    [][Calling =>
         \A i \in 1..Len(alerts') :
            LET k == alerts'[i].type
            IN /\ alerts'[i].outcome \in FailedOutcomes
                     => LatGet(last_alert_times', k) = LatGet(last_alert_times, k)
               /\ (\E j \in 1..Len(alerts) :
                       alerts[j].type = k /\ alerts[j].outcome \in FailedOutcomes)
                     => alerts'[i].outcome # "cooldown"]_vars

\* C9 witness: an alert was delivered, its cooldown ran out, the next post
\* of that type failed and the timestamp is still that of the delivery
C9_Witness ==
    \E i \in 1..Len(alerts) :
       /\ alerts[i].outcome \in FailedOutcomes
       /\ alerts[i].type # "info"
       /\ LatGet(last_alert_times, alerts[i].type) # None
       /\ LatGet(last_alert_times, alerts[i].type) = delivered[alerts[i].type]
       /\ now - delivered[alerts[i].type].v >= ALERT_COOLDOWN_SEC

\* C10: no error-rate call is made while fewer than WINDOW_SIZE entries have
\* been accepted, whatever the share of errors among them.
C10_NoErrorRateBelowCapacity ==
    (Len(accepted_lines) < WINDOW_SIZE \/ Len(request_window) < WINDOW_SIZE)
       => Calls("error_rate") = <<>>

\* C10 witness: the window is one short of full, holds errors only, and the
\* entry just accepted made no call
C10_Witness ==
    /\ Accepted
    /\ Len(request_window) = WINDOW_SIZE - 1
    /\ \A i \in 1..Len(request_window) : request_window[i].is_error
    /\ alerts = <<>>

\* the share of errors in window w, as exact arithmetic has it, is above the threshold
ExactlyAbove(w) == error_count(w) * 100 > ERROR_RATE_THRESHOLD * Len(w)

\* C11: an accepted entry that leaves the window full makes an error-rate
\* call if and only if the share of errors in the window is strictly above
\* ERROR_RATE_THRESHOLD; this holds of every such entry.
C11_ErrorRateCallIffAbove ==
    (Accepted /\ Len(request_window) = WINDOW_SIZE)
       => /\ ExactlyAbove(request_window) => Len(Calls("error_rate")) = 1
          /\ ~ExactlyAbove(request_window) => Calls("error_rate") = <<>>

Float100 == FloatOfNat(100)

\* the double x > 0 is less than two units in its last place away from a / b
NearQuotient(x, a, b) ==
    /\ x.m # <<>>
    /\ x.e <= 0
    /\ BigCmp(BigTimes(BigDec(BigDec(x.m)), b, 0), BigShl(BigOf(a), 0 - x.e)) < 0
    /\ BigCmp(BigShl(BigOf(a), 0 - x.e), BigTimes(BigInc(BigInc(x.m)), b, 0)) < 0

\* what C12 says of every result but the first item: 0.0 on an empty window,
\* 100.0 on a window of errors only, never outside 0 to 100
RateAtEnds(r) ==
    /\ Len(request_window) = 0 => r = FloatZero
    /\ (Len(request_window) > 0 /\ error_count(request_window) = Len(request_window))
          => r = Float100
    /\ FloatCmp(r, FloatZero) >= 0
    /\ FloatCmp(r, Float100) <= 0

\* C12 as stated: calculate_error_rate returns 100 * errorCount / length (the
\* double that expression has) over the entries now in the window, 0.0 on an
\* empty window, 100.0 on a window of errors only, and always within 0 to 100.
C12_RateIsHundredTimesShare ==
    error_rate # NoRate =>
       /\ Len(request_window) > 0 =>
             error_rate[1] = FloatDiv(100 * error_count(request_window),
                                      Len(request_window))
       /\ RateAtEnds(error_rate[1])

\* C12, amended: calculate_error_rate returns (errorCount / length) * 100 over
\* the entries now in the window, each operation rounded to a double: 0.0 if
\* none of them is an error, else a double less than two units in the last
\* place away from 100 * errorCount / length; 0.0 on an empty window, 100.0
\* on a window of errors only, and always within 0 to 100.
C12_RateNearHundredTimesShare ==
    error_rate # NoRate =>
       /\ (Len(request_window) > 0 /\ error_count(request_window) = 0)
             => error_rate[1] = FloatZero
       /\ error_count(request_window) > 0
             => NearQuotient(error_rate[1], 100 * error_count(request_window),
                             Len(request_window))
       /\ RateAtEnds(error_rate[1])

\* C12 witness: more entries were appended than the window of 3 holds, one of
\* the 3 it holds now is an error, and the rate returned is not the double
\* of 100 * 1 / 3
C12_Witness ==
    /\ error_rate # NoRate
    /\ maxlen = 3
    /\ line_count > maxlen
    /\ Len(request_window) = 3
    /\ error_count(request_window) = 1
    /\ error_rate[1] # FloatDiv(100, 3)
    /\ NearQuotient(error_rate[1], 100, 3)

\* a line the claims call skipped: no JSON, an empty JSON value ({} has no
\* pool), or an object whose pool is absent, empty, "-" or "null"
Skippable(l) ==
    \/ l.k \in {"invalid", "falsy"}
    \/ l.k = "object" /\ l.pool \in {Absent, Str(""), Str("-"), Str("null")}

\* this step reads a line
Reading == line_count' # line_count

\* C13: reading a skipped line leaves the window, the last seen pool and
\* every cooldown timestamp as they were, makes no send_slack_alert call and
\* keeps the loop going; and the entry read after a skipped line still makes
\* the failover (recovery) call if the entry accepted last before it was of
\* the primary (backup) pool and it is of the backup (primary) pool.
C13_SkippedLineChangesNothing ==
    [][Reading =>
         /\ Skippable(line') =>
               /\ request_window' = request_window
               /\ last_seen_pool' = last_seen_pool
               /\ last_alert_times' = last_alert_times
               /\ delivered' = delivered
               /\ accepted_lines' = accepted_lines
               /\ alerts' = <<>>
               /\ pc' = "waiting"
         /\ (Skippable(line) /\ line' = Line("object", EXPECTED_BACKUP_POOL, Num(200), Absent)
                /\ seen[2] = EXPECTED_PRIMARY_POOL)
               => /\ Len(alerts') = 1
                  /\ alerts'[1].type = "failover"
         /\ (Skippable(line) /\ line' = Line("object", EXPECTED_PRIMARY_POOL, Num(200), Absent)
                /\ seen[2] = EXPECTED_BACKUP_POOL)
               => /\ Len(alerts') >= 1
                  /\ alerts'[1].type = "recovery"]_vars

\* C13 witness: a blue entry, a line that was not appended, a green entry:
\* the third line made the failover call, which went out
C13_Witness ==
    /\ line = Line("object", EXPECTED_BACKUP_POOL, Num(200), Absent)
    /\ accepted_lines = <<1, 3>>
    /\ seen = <<EXPECTED_PRIMARY_POOL, EXPECTED_BACKUP_POOL>>
    /\ alerts = <<[type |-> "failover", outcome |-> "sent"]>>
    /\ Len(request_window) = 2

\* a line whose record reaches the classification: an object with a pool
\* that is not skipped
Classified(l) ==
    l.k = "object" /\ Truthy(Get(l.pool, Str(""))) /\ l.pool \notin {Str("-"), Str("null")}

\* of the status values in Lines, the one that parses to an integer from 500
\* to 599, and the upstream value with an entry that does
Status5xx(status) == status = Num(500)
Upstream5xx(upstream_status) == upstream_status = UpstreamRetried

\* C14: the classification of a record never raises, and the is_error flag
\* of the entry it puts in the window is true if and only if the status, or
\* an entry of the comma-separated upstream status, is an integer from 500 to 599.
C14_FlagIffStatus5xx ==
    Classified(line) =>
       /\ result # "crash"
       /\ Appended(result) =>
             request_window[Len(request_window)].is_error
                = (Status5xx(line.status) \/ Upstream5xx(line.upstream_status))

\* C15: whatever line is read and whatever the transport answers, the line
\* ends skipped or accepted, every alert of it ends suppressed, failed or
\* sent, and the loop waits for the next line.
C15_NoLineEndsTheLoop ==
    line # NoLine =>
       /\ result \in {"unparsed", "skipped", "accepted"}
       /\ pc = "waiting"
       /\ \A i \in 1..Len(alerts) :
             alerts[i].outcome \in {"maintenance", "no_webhook", "cooldown",
                                    "rejected", "exception", "sent"}

\* C16: the calls of one entry are made and answered within the step of that
\* entry, the failover or recovery call before the error-rate call, and one
\* entry can make both; a delivery is recorded only in the step of the entry
\* that called for it, at the clock of that step, and nothing is delivered
\* between two entries.
C16_AlertsInEntryOrder ==
    [][/\ Calling =>
            /\ Len(alerts') <= 2
            /\ Len(alerts') = 2 =>
                  /\ alerts'[1].type \in {"failover", "recovery"}
                  /\ alerts'[2].type = "error_rate"
            /\ \A k \in AlertTypes :
                  delivered'[k] # delivered[k] =>
                     /\ \E i \in 1..Len(alerts') :
                           alerts'[i] = [type |-> k, outcome |-> "sent"]
                     /\ delivered'[k] = At(now')
       /\ ~Calling => delivered' = delivered /\ last_alert_times' = last_alert_times]_vars

\* C16 witness: one entry made a failover call and then an error-rate call,
\* and both went out
C16_Witness ==
    /\ Accepted
    /\ alerts = <<[type |-> "failover", outcome |-> "sent"],
                  [type |-> "error_rate", outcome |-> "sent"]>>
    /\ delivered["failover"] = At(now)
    /\ delivered["error_rate"] = At(now)

\* C17 as stated: every call of send_slack_alert returns a boolean, true if
\* the alert was delivered and the timestamp recorded, false if it was
\* suppressed or the delivery failed.
C17_ReturnsSentFlag ==
    /\ Len(returned) = Len(alerts)
    /\ \A i \in 1..Len(alerts) : returned[i] = Bool(alerts[i].outcome = "sent")

\* C17, amended: every call of send_slack_alert ends, without raising, in one
\* of delivered, suppressed (maintenance mode, cooldown), not configured or
\* failed, and returns None in each of them; a delivery shows only in
\* last_alert_times, where the entry of its type is then set.
C17_ReturnsNone ==
    /\ Len(returned) = Len(alerts)
    /\ \A i \in 1..Len(alerts) :
          /\ returned[i] = None
          /\ alerts[i].outcome \in {"maintenance", "no_webhook", "cooldown",
                                    "rejected", "exception", "sent"}
          /\ alerts[i].outcome = "sent"
                => /\ LatGet(last_alert_times, alerts[i].type) # None
                   /\ LatGet(last_alert_times, alerts[i].type).v <= now

\* C17 witness: of the two calls of one entry the first was delivered and the
\* second failed, and both returned None
C17_Witness ==
    /\ alerts = <<[type |-> "failover", outcome |-> "sent"],
                  [type |-> "error_rate", outcome |-> "rejected"]>>
    /\ returned = <<None, None>>
    /\ LatGet(last_alert_times, "failover") = At(now)
    /\ LatGet(last_alert_times, "error_rate") = None

\* C18: when SIGINT arrives the process ends with status 0 (the loop reads no
\* further line) and a call of send_slack_alert that was waiting for the
\* transport at that moment still comes to one of its ends (sent, rejected,
\* exception or timeout): no call is left cut off in the post.
C18_ShutdownLetsDispatchFinish ==
    /\ result \in {"signal", "interrupted"} => pc = "exit0"
    /\ \A i \in 1..Len(alerts) : alerts[i].outcome # "interrupted"

\* C19: last_alert_times[k] changes only in a step that delivered an alert of
\* type k, and then to the clock of that delivery, which is not earlier than
\* the timestamp it replaces; every delivery of type k writes it.  It is None
\* (absent, for "info") until the first such delivery, no entry is removed
\* or set back to None, and calls for other types, suppressed calls and
\* failed calls leave it as it was.
C19_TimestampOnlyOnDelivery ==
    [][ /\ DOMAIN last_alert_times \subseteq DOMAIN last_alert_times'
        /\ \A k \in AlertTypes :
             LET old == LatGet(last_alert_times, k)
                 new == LatGet(last_alert_times', k)
                 sent == /\ Calling
                         /\ \E i \in 1..Len(alerts') :
                               alerts'[i].type = k /\ alerts'[i].outcome = "sent"
             IN /\ new # old => sent
                /\ sent => new = At(now')
                /\ old # None => new # None /\ old.v <= new.v
                /\ delivered[k] = None => old = None ]_vars

\* C19 witness: after a delivered error-rate alert a later call for one is
\* made and fails, and the timestamp is still that of the earlier delivery.
C19_Witness ==
    /\ \E i \in 1..Len(alerts) :
          alerts[i].type = "error_rate" /\ alerts[i].outcome \in FailedOutcomes
    /\ LatGet(last_alert_times, "error_rate") # None
    /\ LatGet(last_alert_times, "error_rate").v < now
    /\ LatGet(last_alert_times, "error_rate") = delivered["error_rate"]

\* a call for a failover or recovery alert that did not deliver it
HeldBack(c) == c.type \in {"failover", "recovery"} /\ c.outcome # "sent"

\* C20: reading a line makes at most one call for a failover or recovery
\* alert, and makes one only for an accepted entry that changes the pool from
\* primary to backup (failover) or from backup to primary (recovery).  So an
\* alert that was suppressed or failed is not tried again by the entries that
\* stay on the new pool: the next call of its type comes with the next such
\* change of pool.
C20_NoSecondTryForATransition ==
    [][ Reading =>
          LET calls == TransitionCalls(alerts')
          IN /\ Len(calls) <= 1
             /\ calls # <<>> =>
                   /\ Appended(result')
                   /\ \/ /\ calls[1].type = "failover"
                         /\ seen' = <<EXPECTED_PRIMARY_POOL, EXPECTED_BACKUP_POOL>>
                      \/ /\ calls[1].type = "recovery"
                         /\ seen' = <<EXPECTED_BACKUP_POOL, EXPECTED_PRIMARY_POOL>>
             /\ ( /\ \E i \in 1..Len(alerts) : HeldBack(alerts[i])
                  /\ Appended(result) /\ Appended(result')
                  /\ seen'[2] = seen[2] ) => calls = <<>> ]_vars

\* C20 witness: the entries blue, green, green were accepted; the failover
\* alert of the second was held back (suppressed or failed) and the third,
\* staying on green, made no call for it.
C20_Witness ==
    /\ trace # Off
    /\ Pools(trace) = <<EXPECTED_PRIMARY_POOL, EXPECTED_BACKUP_POOL, EXPECTED_BACKUP_POOL>>
    /\ Len(trace[2].calls) = 1
    /\ HeldBack(trace[2].calls[1])
    /\ trace[3].calls = <<>>
    /\ TransitionCalls(alerts) = <<>>
    /\ last_seen_pool = EXPECTED_BACKUP_POOL

====
